---------------------------- MODULE Spec2Model ----------------------------
(***************************************************************************)
(* RMSProp optimizer (keras/optimizer_v2/rmsprop.py).                      *)
(*                                                                         *)
(* The class RMSProp is modelled as a state machine over                   *)
(*   - the trainable variables (tensors of NumRows rows of one element),   *)
(*   - the slot stores (`state` objects) holding the accumulators rms,     *)
(*     mg and momentum of each variable,                                   *)
(*   - the hyperparameters and the centered flag set by __init__.          *)
(* Each method of the class is one operator that builds the call of the    *)
(* training_ops kernel exactly as the method does (which slots it looks    *)
(* up and where, the order of the operands, the epsilon operand, the       *)
(* use_locking flag).  The kernels, the slot store and the hyperparameter  *)
(* resolver are collaborators whose code is not part of rmsprop.py; they   *)
(* follow the written specification (recurrences of 4.3/4.4, slot store    *)
(* of 4.2, locking of 5).                                                  *)
(*                                                                         *)
(* Floating point numbers are modelled as fixed point numbers: the integer *)
(* x stands for x / SCALE.  A non finite result (division by zero, root of *)
(* a negative number) is the absorbing value NaN.                          *)
(***************************************************************************)
EXTENDS Integers, Sequences, FiniteSets, TLC

VARIABLES
  centered,     \* self._centered
  use_locking,  \* self._use_locking
  hyper,        \* the hyperparameters registered by _set_hyper
  vars,         \* value of every trainable variable
  slots,        \* slots[s]: the slot dictionary of store s, keyed <<var, kind>>
  last,         \* the last operation: its inputs, its kernel call, its outcome
  pre,          \* variables and slots as they were before the last operation
  ncalls,       \* number of calls that count against MaxSteps
  pc,           \* concurrent updates: position of every thread in its kernel
  job,          \* concurrent updates: the kernel call every thread executes
  tmp,          \* concurrent updates: the new row values a thread has computed
  lock          \* concurrent updates: holder of the variable's write lock

seqvars == <<centered, use_locking, hyper, vars, slots, last, pre, ncalls>>
convars == <<pc, job, tmp, lock>>
allvars == <<centered, use_locking, hyper, vars, slots, last, pre, ncalls,
             pc, job, tmp, lock>>

---------------------------------------------------------------------------
(* Bounds of the model *)

MaxSteps == 2
NumRows == 2
MaxIdxLen == 2

---------------------------------------------------------------------------
(* Fixed point arithmetic standing for the float arithmetic of the kernels *)

SCALE == 2^12
NaN == 0 - 2^30

Finite(x) == x # NaN

Add(a, b) == IF Finite(a) /\ Finite(b) THEN a + b ELSE NaN
Sub(a, b) == IF Finite(a) /\ Finite(b) THEN a - b ELSE NaN
Mul(a, b) == IF Finite(a) /\ Finite(b) THEN (a * b) \div SCALE ELSE NaN
Div(a, b) == IF Finite(a) /\ Finite(b) /\ b # 0 THEN (a * SCALE) \div b ELSE NaN

RECURSIVE Newton(_, _)
\* Newton's iteration from x >= root(n), down to the largest r with r*r <= n
Newton(n, x) ==
  LET y == (x + n \div x) \div 2
  IN  IF y >= x THEN x ELSE Newton(n, y)

ISqrt(n) == IF n = 0 THEN 0 ELSE Newton(n, 2^15)

Sqrt(a) == IF Finite(a) /\ a >= 0 THEN ISqrt(a * SCALE) ELSE NaN

---------------------------------------------------------------------------
(* Inputs *)

Vars == {"a"}                      \* the trainable variables
Stores == {"s1", "s2"}             \* the slot stores a caller may pass as `state`
OwnStore == "s1"                   \* the store self.get_slot resolves to
Kinds == {"rms", "mg", "momentum"}
Rows == 1..NumRows

ONE == SCALE                       \* 1.0
InitialValue == SCALE              \* every variable starts at 1.0
GradValues == {0, SCALE}           \* an element of a gradient: 0.0 or 1.0

None == 0 - 1                      \* the default momentum=None of __init__

\* constructor arguments: learning_rate, rho, momentum (or None), epsilon
CtorArgs ==
  { [learning_rate |-> SCALE \div 8, rho |-> SCALE \div 2,
     momentum |-> SCALE \div 4, epsilon |-> SCALE \div 16],
    [learning_rate |-> 0, rho |-> SCALE \div 2,
     momentum |-> None, epsilon |-> SCALE] }

Tensor(x) == [r \in Rows |-> x]
\* the positions of row r in the index sequence idx
Occurrences(idx, r) == { i \in 1..Len(idx) : idx[i] = r }
\* dense gradients: all elements zero, all elements 1.0, only the first row 1.0
DenseGrads == { Tensor(0), Tensor(SCALE), [r \in Rows |-> IF r = 1 THEN SCALE ELSE 0] }
\* sparse gradients: every index sequence of up to MaxIdxLen rows (repeats and
\* any order included), every choice of gradient rows
IdxSeqs == UNION { [1..n -> Rows] : n \in 1..MaxIdxLen }
SparseGrads(idx) == [1..Len(idx) -> GradValues]

---------------------------------------------------------------------------
(* RMSProp.__init__ *)

\* if momentum is None: momentum = 0.0; then the four _set_hyper calls
InitHyper(args) ==
  [learning_rate |-> args.learning_rate,
   rho           |-> args.rho,
   momentum      |-> IF args.momentum = None THEN 0 ELSE args.momentum,
   epsilon       |-> args.epsilon]

---------------------------------------------------------------------------
(* Collaborators: hyperparameter resolver and slot store *)

\* state.get_hyper(name, dtype): the registered value
get_hyper(name) == hyper[name]

EmptyStore == [k \in {} |-> <<>>]

\* a reference to a slot tensor; found = FALSE when the store has no such slot
SlotRef(s, v, k, S) ==
  [store |-> s, var |-> v, kind |-> k, found |-> (<<v, k>> \in DOMAIN S[s])]

NoSlot == [store |-> "none", var |-> "none", kind |-> "none", found |-> TRUE]

\* state.get_slot(var, kind) on the slot dictionaries S
get_slot(s, v, k, S) == SlotRef(s, v, k, S)

\* self.get_slot(var, kind): the lookup goes to the optimizer's own store
self_get_slot(v, k, S) == SlotRef(OwnStore, v, k, S)

Put(d, key, t) == [x \in (DOMAIN d) \cup {key} |-> IF x = key THEN t ELSE d[x]]

\* state.create_slot_with_initializer / state.zeros_slot: a new slot of the
\* variable's shape, DuplicateSlot when the variable already has that slot
create_slot(R, s, v, k, init) ==
  IF R.err # "ok" THEN R
  ELSE IF <<v, k>> \in DOMAIN R.slots[s]
       THEN [R EXCEPT !.err = "DuplicateSlot"]
       ELSE [R EXCEPT !.slots[s] = Put(@, <<v, k>>, init)]

zeros_slot(R, s, v, k) == create_slot(R, s, v, k, Tensor(0))

---------------------------------------------------------------------------
(* RMSProp._create_vars *)

\* Faulty variants of the loop body, used to test the properties:
\* rms allocated with zeros_slot like the other slots
create_vars_one_zero_rms(R, s, v) ==
  LET R1 == zeros_slot(R, s, v, "rms")
      R2 == IF centered THEN zeros_slot(R1, s, v, "mg") ELSE R1
  IN  zeros_slot(R2, s, v, "momentum")

\* mg allocated whether the engine is centered or not
create_vars_one_always_mg(R, s, v) ==
  LET init_rms == Tensor(Mul(get_hyper("epsilon"), ONE))
      R1 == create_slot(R, s, v, "rms", init_rms)
      R2 == zeros_slot(R1, s, v, "mg")
  IN  zeros_slot(R2, s, v, "momentum")

\* the slots written into the dictionary without asking whether they exist
create_vars_one_overwrite(R, s, v) ==
  LET init_rms == Tensor(Mul(get_hyper("epsilon"), ONE))
      D1 == Put(R.slots[s], <<v, "rms">>, init_rms)
      D2 == IF centered THEN Put(D1, <<v, "mg">>, Tensor(0)) ELSE D1
  IN  [R EXCEPT !.slots[s] = Put(D2, <<v, "momentum">>, Tensor(0))]

\* the body of the loop for one variable v
create_vars_one(R, s, v) ==
  LET init_rms == Tensor(Mul(get_hyper("epsilon"), ONE))
      R1 == create_slot(R, s, v, "rms", init_rms)
      R2 == IF centered THEN zeros_slot(R1, s, v, "mg") ELSE R1
  IN  zeros_slot(R2, s, v, "momentum")

RECURSIVE create_vars_loop(_, _, _)
create_vars_loop(R, s, var_list) ==
  IF var_list = <<>> THEN R
  ELSE create_vars_loop(create_vars_one(R, s, Head(var_list)), s, Tail(var_list))

create_vars(var_list, s, S) ==
  create_vars_loop([slots |-> S, err |-> "ok"], s, var_list)


---------------------------------------------------------------------------
(* Collaborators: the training_ops kernels *)

DenseKernels == {"apply_rms_prop", "apply_centered_rms_prop",
                 "resource_apply_rms_prop", "resource_apply_centered_rms_prop"}
SparseKernels == {"sparse_apply_rms_prop", "sparse_apply_centered_rms_prop",
                  "resource_sparse_apply_rms_prop",
                  "resource_sparse_apply_centered_rms_prop"}
CenteredKernels == {"apply_centered_rms_prop", "resource_apply_centered_rms_prop",
                    "sparse_apply_centered_rms_prop",
                    "resource_sparse_apply_centered_rms_prop"}

\* a kernel invocation: the operands in the order of the kernel's signature
KernelCall(kernel, var, mg, rms, mom, lr, rho, momentum, epsilon, grad, indices, locking) ==
  [kernel |-> kernel, var |-> var, mg |-> mg, rms |-> rms, mom |-> mom,
   lr |-> lr, rho |-> rho, momentum |-> momentum, epsilon |-> epsilon,
   grad |-> grad, indices |-> indices, use_locking |-> locking]

NoCall == KernelCall("none", "none", NoSlot, NoSlot, NoSlot, 0, 0, 0, 0, <<>>, <<>>, FALSE)

\* the recurrence on one element; el = [v, mg, rms, mom]
MgNew(el, g, c) == Add(Mul(c.rho, el.mg), Mul(Sub(ONE, c.rho), g))
RmsNew(el, g, c) == Add(Mul(c.rho, el.rms), Mul(Sub(ONE, c.rho), Mul(g, g)))
MomNew(el, g, c, denom) ==
  Add(Mul(c.momentum, el.mom), Div(Mul(c.lr, g), Sqrt(Add(denom, c.epsilon))))

ElementStep(el, g, c) ==
  IF c.kernel \in CenteredKernels
  THEN LET mg1  == MgNew(el, g, c)
           rms1 == RmsNew(el, g, c)
           mom1 == MomNew(el, g, c, Sub(rms1, Mul(mg1, mg1)))
       IN  [v |-> Sub(el.v, mom1), mg |-> mg1, rms |-> rms1, mom |-> mom1]
  ELSE LET rms1 == RmsNew(el, g, c)
           mom1 == MomNew(el, g, c, rms1)
       IN  [v |-> Sub(el.v, mom1), mg |-> el.mg, rms |-> rms1, mom |-> mom1]

\* the tensors a call addresses, read from memory (V, S)
ReadSlot(h, S) == IF h = NoSlot THEN Tensor(0) ELSE S[h.store][<<h.var, h.kind>>]
ReadAll(c, V, S) ==
  [v |-> V[c.var], mg |-> ReadSlot(c.mg, S), rms |-> ReadSlot(c.rms, S),
   mom |-> ReadSlot(c.mom, S)]
RowOf(T, r) == [v |-> T.v[r], mg |-> T.mg[r], rms |-> T.rms[r], mom |-> T.mom[r]]
SetRow(T, r, el) ==
  [v   |-> [T.v   EXCEPT ![r] = el.v],   mg  |-> [T.mg  EXCEPT ![r] = el.mg],
   rms |-> [T.rms EXCEPT ![r] = el.rms], mom |-> [T.mom EXCEPT ![r] = el.mom]]

WriteSlot(S, h, t) == IF h = NoSlot THEN S ELSE [S EXCEPT ![h.store][<<h.var, h.kind>>] = t]
WriteAll(c, T, V, S) ==
  [vars  |-> [V EXCEPT ![c.var] = T.v],
   slots |-> WriteSlot(WriteSlot(WriteSlot(S, c.mg, T.mg), c.rms, T.rms), c.mom, T.mom)]

\* dense kernels: every element of the tensors
DenseKernel(T, c) ==
  LET new == [r \in Rows |-> ElementStep(RowOf(T, r), c.grad[r], c)]
  IN  [v |-> [r \in Rows |-> new[r].v],     mg  |-> [r \in Rows |-> new[r].mg],
       rms |-> [r \in Rows |-> new[r].rms], mom |-> [r \in Rows |-> new[r].mom]]

\* sparse kernels: for i = 1..Len(indices) in order, row indices[i] with grad[i]
RECURSIVE SparseKernel(_, _, _)
SparseKernel(T, c, i) ==
  IF i > Len(c.indices) THEN T
  ELSE LET r == c.indices[i]
       IN  SparseKernel(SetRow(T, r, ElementStep(RowOf(T, r), c.grad[i], c)), c, i + 1)

SlotsFound(c) == c.mg.found /\ c.rms.found /\ c.mom.found

\* one whole kernel invocation on memory (V, S)
RunKernel(c, V, S) ==
  IF ~SlotsFound(c) THEN [vars |-> V, slots |-> S, err |-> "SlotNotFound"]
  ELSE LET T  == ReadAll(c, V, S)
           T1 == IF c.kernel \in SparseKernels THEN SparseKernel(T, c, 1)
                 ELSE DenseKernel(T, c)
           W  == WriteAll(c, T1, V, S)
       IN  [vars |-> W.vars, slots |-> W.slots, err |-> "ok"]

---------------------------------------------------------------------------
(* The four update entry points of RMSProp: each looks its slots up, resolves
   the hyperparameters and invokes one kernel. *)

\* Faulty variants of the entry points, used to test the properties:
\* rho and momentum passed in each other's place
apply_dense_swapped_hyper(grad, var, state, S) ==
  LET rms == get_slot(state, var, "rms", S)
      mom == get_slot(state, var, "momentum", S)
  IN  IF centered
      THEN LET mg == get_slot(state, var, "mg", S)
           IN  KernelCall("apply_centered_rms_prop", var, mg, rms, mom,
                          get_hyper("learning_rate"), get_hyper("momentum"),
                          get_hyper("rho"), 0, grad, <<>>, use_locking)
      ELSE KernelCall("apply_rms_prop", var, NoSlot, rms, mom,
                      get_hyper("learning_rate"), get_hyper("momentum"),
                      get_hyper("rho"), 0, grad, <<>>, use_locking)

\* mg and rms passed in each other's place
apply_dense_swapped_slots(grad, var, state, S) ==
  LET rms == get_slot(state, var, "rms", S)
      mom == get_slot(state, var, "momentum", S)
  IN  IF centered
      THEN LET mg == get_slot(state, var, "mg", S)
           IN  KernelCall("apply_centered_rms_prop", var, rms, mg, mom,
                          get_hyper("learning_rate"), get_hyper("rho"),
                          get_hyper("momentum"), 0, grad, <<>>, use_locking)
      ELSE KernelCall("apply_rms_prop", var, NoSlot, rms, mom,
                      get_hyper("learning_rate"), get_hyper("rho"),
                      get_hyper("momentum"), 0, grad, <<>>, use_locking)

\* the kernel invoked without the lock
apply_dense_unlocked(grad, var, state, S) ==
  LET rms == get_slot(state, var, "rms", S)
      mom == get_slot(state, var, "momentum", S)
  IN  IF centered
      THEN LET mg == get_slot(state, var, "mg", S)
           IN  KernelCall("apply_centered_rms_prop", var, mg, rms, mom,
                          get_hyper("learning_rate"), get_hyper("rho"),
                          get_hyper("momentum"), 0, grad, <<>>, FALSE)
      ELSE KernelCall("apply_rms_prop", var, NoSlot, rms, mom,
                      get_hyper("learning_rate"), get_hyper("rho"),
                      get_hyper("momentum"), 0, grad, <<>>, FALSE)

apply_dense(grad, var, state, S) ==
  LET rms == get_slot(state, var, "rms", S)
      mom == get_slot(state, var, "momentum", S)
  IN  IF centered
      THEN LET mg == get_slot(state, var, "mg", S)
           IN  KernelCall("apply_centered_rms_prop", var, mg, rms, mom,
                          get_hyper("learning_rate"), get_hyper("rho"),
                          get_hyper("momentum"), 0, grad, <<>>, use_locking)
      ELSE KernelCall("apply_rms_prop", var, NoSlot, rms, mom,
                      get_hyper("learning_rate"), get_hyper("rho"),
                      get_hyper("momentum"), 0, grad, <<>>, use_locking)

\* the epsilon hyperparameter passed to the kernel as well
resource_apply_dense_epsilon(grad, var, state, S) ==
  LET rms == get_slot(state, var, "rms", S)
      mom == get_slot(state, var, "momentum", S)
  IN  IF centered
      THEN LET mg == get_slot(state, var, "mg", S)
           IN  KernelCall("resource_apply_centered_rms_prop", var, mg, rms, mom,
                          get_hyper("learning_rate"), get_hyper("rho"),
                          get_hyper("momentum"), get_hyper("epsilon"), grad, <<>>,
                          use_locking)
      ELSE KernelCall("resource_apply_rms_prop", var, NoSlot, rms, mom,
                      get_hyper("learning_rate"), get_hyper("rho"),
                      get_hyper("momentum"), get_hyper("epsilon"), grad, <<>>,
                      use_locking)

resource_apply_dense(grad, var, state, S) ==
  LET rms == get_slot(state, var, "rms", S)
      mom == get_slot(state, var, "momentum", S)
  IN  IF centered
      THEN LET mg == get_slot(state, var, "mg", S)
           IN  KernelCall("resource_apply_centered_rms_prop", var, mg, rms, mom,
                          get_hyper("learning_rate"), get_hyper("rho"),
                          get_hyper("momentum"), 0, grad, <<>>, use_locking)
      ELSE KernelCall("resource_apply_rms_prop", var, NoSlot, rms, mom,
                      get_hyper("learning_rate"), get_hyper("rho"),
                      get_hyper("momentum"), 0, grad, <<>>, use_locking)

\* the sparse gradient scattered into a dense one (a row outside the indices
\* gets gradient zero) and handed to the dense kernel
apply_sparse_densified(grad, var, state, S) ==
  LET rms == get_slot(state, var, "rms", S)
      mom == get_slot(state, var, "momentum", S)
      dense == [r \in Rows |->
                  IF Occurrences(grad.indices, r) = {} THEN 0
                  ELSE grad.values[CHOOSE i \in Occurrences(grad.indices, r) :
                                     \A j \in Occurrences(grad.indices, r) : i <= j]]
  IN  IF centered
      THEN LET mg == get_slot(state, var, "mg", S)
           IN  KernelCall("apply_centered_rms_prop", var, mg, rms, mom,
                          get_hyper("learning_rate"), get_hyper("rho"),
                          get_hyper("momentum"), 0, dense, <<>>, use_locking)
      ELSE KernelCall("apply_rms_prop", var, NoSlot, rms, mom,
                      get_hyper("learning_rate"), get_hyper("rho"),
                      get_hyper("momentum"), 0, dense, <<>>, use_locking)

\* every row of the indices kept once, with the gradient row of its first
\* occurrence
apply_sparse_dedup(grad, var, state, S) ==
  LET rms == get_slot(state, var, "rms", S)
      mom == get_slot(state, var, "momentum", S)
      keep == { i \in 1..Len(grad.indices) :
                  \A j \in 1..(i - 1) : grad.indices[j] # grad.indices[i] }
      pos == CHOOSE f \in [1..Cardinality(keep) -> keep] :
               \A i, j \in 1..Cardinality(keep) : i < j => f[i] < f[j]
      values == [i \in 1..Cardinality(keep) |-> grad.values[pos[i]]]
      indices == [i \in 1..Cardinality(keep) |-> grad.indices[pos[i]]]
  IN  IF centered
      THEN LET mg == get_slot(state, var, "mg", S)
           IN  KernelCall("sparse_apply_centered_rms_prop", var, mg, rms, mom,
                          get_hyper("learning_rate"), get_hyper("rho"),
                          get_hyper("momentum"), 0, values, indices, use_locking)
      ELSE KernelCall("sparse_apply_rms_prop", var, NoSlot, rms, mom,
                      get_hyper("learning_rate"), get_hyper("rho"),
                      get_hyper("momentum"), 0, values, indices, use_locking)

\* grad is an IndexedSlices: grad.values, grad.indices
apply_sparse(grad, var, state, S) ==
  LET rms == get_slot(state, var, "rms", S)
      mom == get_slot(state, var, "momentum", S)
  IN  IF centered
      THEN LET mg == get_slot(state, var, "mg", S)
           IN  KernelCall("sparse_apply_centered_rms_prop", var, mg, rms, mom,
                          get_hyper("learning_rate"), get_hyper("rho"),
                          get_hyper("momentum"), 0, grad.values, grad.indices,
                          use_locking)
      ELSE KernelCall("sparse_apply_rms_prop", var, NoSlot, rms, mom,
                      get_hyper("learning_rate"), get_hyper("rho"),
                      get_hyper("momentum"), 0, grad.values, grad.indices,
                      use_locking)

\* the mg slot is looked up with self.get_slot, not state.get_slot
resource_apply_sparse(grad, var, indices, state, S) ==
  LET rms == get_slot(state, var, "rms", S)
      mom == get_slot(state, var, "momentum", S)
  IN  IF centered
      THEN LET mg == self_get_slot(var, "mg", S)
           IN  KernelCall("resource_sparse_apply_centered_rms_prop", var, mg, rms,
                          mom, get_hyper("learning_rate"), get_hyper("rho"),
                          get_hyper("momentum"), 0, grad, indices, use_locking)
      ELSE KernelCall("resource_sparse_apply_rms_prop", var, NoSlot, rms, mom,
                      get_hyper("learning_rate"), get_hyper("rho"),
                      get_hyper("momentum"), 0, grad, indices, use_locking)


---------------------------------------------------------------------------
(* Sequential behaviour: one call of a method at a time *)

VarLists == { <<v>> : v \in Vars }

Memory == [vars |-> vars, slots |-> slots]

NoOp == [op |-> "none", var |-> "none", state |-> "none", var_list |-> <<>>,
         kind |-> "none", grad |-> <<>>, indices |-> <<>>, call |-> NoCall,
         result |-> "ok"]

Idle ==
  /\ pc = [t \in {"t1", "t2"} |-> "idle"]
  /\ job = [t \in {"t1", "t2"} |-> NoCall]
  /\ tmp = [t \in {"t1", "t2"} |-> 0]
  /\ lock = "free"

InitEngine ==
  /\ centered \in BOOLEAN
  /\ hyper \in { InitHyper(a) : a \in CtorArgs }
  /\ vars = [v \in Vars |-> Tensor(InitialValue)]
  /\ slots = [s \in Stores |-> EmptyStore]
  /\ last = NoOp
  /\ pre = Memory
  /\ ncalls = 0
  /\ Idle

Init ==
  /\ InitEngine
  /\ use_locking = TRUE

\* A run is a sequence of calls.  It ends with the first call that fails (the
\* error goes to the caller), with a sparse update, or after MaxSteps calls.
Running == ncalls < MaxSteps /\ last.result = "ok"

\* an update entry point was called and built kernel call c
Update(op, v, s, grad, indices, c) ==
  /\ Running
  /\ \E R \in {RunKernel(c, vars, slots)} :
       /\ vars' = R.vars
       /\ slots' = R.slots
       /\ last' = [NoOp EXCEPT !.op = op, !.var = v, !.state = s, !.grad = grad,
                               !.indices = indices, !.call = c, !.result = R.err]
  /\ pre' = Memory
  /\ ncalls' = IF c.kernel \in SparseKernels THEN MaxSteps ELSE ncalls + 1
  /\ UNCHANGED <<centered, use_locking, hyper, pc, job, tmp, lock>>

CreateVars ==
  /\ Running
  /\ \E var_list \in VarLists, s \in Stores :
       \E R \in {create_vars(var_list, s, slots)} :
         /\ slots' = R.slots
         /\ last' = [NoOp EXCEPT !.op = "create_vars", !.var_list = var_list,
                                 !.state = s, !.result = R.err]
  /\ pre' = Memory
  /\ UNCHANGED <<centered, use_locking, hyper, vars, ncalls, pc, job, tmp, lock>>

\* a caller asks the store for a slot
GetSlot ==
  /\ Running
  /\ \E v \in Vars, k \in Kinds, s \in Stores :
       last' = [NoOp EXCEPT !.op = "get_slot", !.var = v, !.kind = k, !.state = s,
                            !.result = IF get_slot(s, v, k, slots).found
                                       THEN "ok" ELSE "SlotNotFound"]
  /\ ncalls' = ncalls + 1
  /\ pre' = Memory
  /\ UNCHANGED <<centered, use_locking, hyper, vars, slots, pc, job, tmp, lock>>

ApplyDense ==
  /\ Running
  /\ \E v \in Vars, s \in Stores, grad \in DenseGrads :
       Update("apply_dense", v, s, grad, <<>>, apply_dense(grad, v, s, slots))

ResourceApplyDense ==
  /\ Running
  /\ \E v \in Vars, s \in Stores, grad \in DenseGrads :
       Update("resource_apply_dense", v, s, grad, <<>>,
              resource_apply_dense(grad, v, s, slots))

ApplySparse ==
  /\ Running
  /\ \E v \in Vars, s \in Stores, idx \in IdxSeqs :
       \E values \in SparseGrads(idx) :
         Update("apply_sparse", v, s, values, idx,
                apply_sparse([values |-> values, indices |-> idx], v, s, slots))

ResourceApplySparse ==
  /\ Running
  /\ \E v \in Vars, s \in Stores, idx \in IdxSeqs :
       \E values \in SparseGrads(idx) :
         Update("resource_apply_sparse", v, s, values, idx,
                resource_apply_sparse(values, v, idx, s, slots))

Next ==
  \/ CreateVars
  \/ GetSlot
  \/ ApplyDense
  \/ ResourceApplyDense
  \/ ApplySparse
  \/ ResourceApplySparse

Spec == Init /\ [][Next]_allvars

---------------------------------------------------------------------------
(* Concurrent behaviour: two threads call update entry points on the same
   variable.  Each entry point hands use_locking = self._use_locking to its
   kernel; a kernel called with use_locking holds the variable's lock from
   its first read to its last write.  A kernel works in phases, each phase
   one read-modify-write of the tensors: the dense kernels update mg (when
   centered), rms, momentum and the variable in turn, the sparse kernels
   update one row per entry of the indices. *)

Threads == {"t1", "t2"}

ConcDenseGrads == { Tensor(SCALE), Tensor(0) }
ConcIdxSeqs == { <<r>> : r \in Rows } \cup { <<1, 1>> }

\* the kernel calls a thread may issue on variable v
Jobs(v) ==
  { apply_dense(g, v, OwnStore, slots) : g \in ConcDenseGrads }
  \cup { resource_apply_dense(g, v, OwnStore, slots) : g \in ConcDenseGrads }
  \cup { apply_sparse([values |-> [i \in 1..Len(idx) |-> SCALE], indices |-> idx],
                      v, OwnStore, slots) : idx \in ConcIdxSeqs }
  \cup { resource_apply_sparse([i \in 1..Len(idx) |-> SCALE], v, idx, OwnStore, slots)
           : idx \in ConcIdxSeqs }

DensePhases(c) ==
  IF c.kernel \in CenteredKernels THEN <<"mg", "rms", "mom", "var">>
  ELSE <<"rms", "mom", "var">>

NumPhases(c) ==
  IF c.kernel \in SparseKernels THEN Len(c.indices) ELSE Len(DensePhases(c))

\* phase n of kernel call c on the tensors T
Phase(c, n, T) ==
  IF c.kernel \in SparseKernels
  THEN LET r == c.indices[n]
       IN  SetRow(T, r, ElementStep(RowOf(T, r), c.grad[n], c))
  ELSE LET ph == DensePhases(c)[n]
       IN  CASE ph = "mg" ->
                  [T EXCEPT !.mg = [r \in Rows |-> MgNew(RowOf(T, r), c.grad[r], c)]]
             [] ph = "rms" ->
                  [T EXCEPT !.rms = [r \in Rows |-> RmsNew(RowOf(T, r), c.grad[r], c)]]
             [] ph = "mom" ->
                  [T EXCEPT !.mom = [r \in Rows |->
                     MomNew(RowOf(T, r), c.grad[r], c,
                            IF c.kernel \in CenteredKernels
                            THEN Sub(T.rms[r], Mul(T.mg[r], T.mg[r]))
                            ELSE T.rms[r])]]
             [] ph = "var" ->
                  [T EXCEPT !.v = [r \in Rows |-> Sub(T.v[r], T.mom[r])]]

InitConc ==
  /\ InitEngine
  /\ use_locking \in BOOLEAN

\* _create_vars before the first update
ConcCreate ==
  /\ \A t \in Threads : pc[t] = "idle"
  /\ \E var_list \in VarLists :
       \E R \in {create_vars(var_list, OwnStore, slots)} :
         /\ R.err = "ok"
         /\ slots' = R.slots
  /\ UNCHANGED <<centered, use_locking, hyper, vars, last, pre, ncalls,
                 pc, job, tmp, lock>>

\* both threads call an entry point on variable v; a call whose slot lookup
\* fails never reaches its kernel
Issue ==
  /\ \A t \in Threads : pc[t] = "idle"
  /\ \E v \in Vars :
       \E c1 \in Jobs(v), c2 \in Jobs(v) :
         /\ SlotsFound(c1) /\ SlotsFound(c2)
         /\ job' = [t \in Threads |-> IF t = "t1" THEN c1 ELSE c2]
  /\ pc' = [t \in Threads |-> "called"]
  /\ pre' = Memory
  /\ UNCHANGED <<centered, use_locking, hyper, vars, slots, last, ncalls, tmp, lock>>

\* the kernel starts: with use_locking it first takes the variable's lock
Acquire(t) ==
  /\ pc[t] = "called"
  /\ job[t].use_locking => lock = "free"
  /\ lock' = IF job[t].use_locking THEN t ELSE lock
  /\ pc' = [pc EXCEPT ![t] = "run"]
  /\ tmp' = [tmp EXCEPT ![t] = 1]
  /\ UNCHANGED <<centered, use_locking, hyper, vars, slots, last, pre, ncalls, job>>

\* the kernel of thread t does its next phase
Step(t) ==
  /\ pc[t] = "run"
  /\ tmp[t] <= NumPhases(job[t])
  /\ \E W \in {WriteAll(job[t], Phase(job[t], tmp[t], ReadAll(job[t], vars, slots)),
                        vars, slots)} :
       /\ vars' = W.vars
       /\ slots' = W.slots
  /\ tmp' = [tmp EXCEPT ![t] = @ + 1]
  /\ UNCHANGED <<centered, use_locking, hyper, last, pre, ncalls, pc, job, lock>>

\* the kernel returns: with use_locking it gives the lock back
Release(t) ==
  /\ pc[t] = "run"
  /\ tmp[t] > NumPhases(job[t])
  /\ lock' = IF job[t].use_locking THEN "free" ELSE lock
  /\ pc' = [pc EXCEPT ![t] = "done"]
  /\ UNCHANGED <<centered, use_locking, hyper, vars, slots, last, pre, ncalls, job, tmp>>

NextConc ==
  \/ ConcCreate
  \/ Issue
  \/ \E t \in Threads : Acquire(t)
  \/ \E t \in Threads : Step(t)
  \/ \E t \in Threads : Release(t)

SpecConc == InitConc /\ [][NextConc]_allvars


---------------------------------------------------------------------------
(* Vocabulary of the properties *)

DenseOps == {"apply_dense", "resource_apply_dense"}
SparseOps == {"apply_sparse", "resource_apply_sparse"}
UpdateOps == DenseOps \cup SparseOps

Succeeded(ops) == last.op \in ops /\ last.result = "ok"

\* slot `k` of the last call's variable in the store the caller passed
OldSlot(k) == pre.slots[last.state][<<last.var, k>>]
NewSlot(k) == slots[last.state][<<last.var, k>>]
OldVar == pre.vars[last.var]
NewVar == vars[last.var]

\* the tensor a slot reference of the last kernel call addresses
OldAt(h) == ReadSlot(h, pre.slots)
NewAt(h) == ReadSlot(h, slots)


\* the recurrence of the engine as constructed, with no epsilon term
Recurrence ==
  [kernel |-> IF centered THEN "apply_centered_rms_prop" ELSE "apply_rms_prop",
   lr |-> hyper.learning_rate, rho |-> hyper.rho, momentum |-> hyper.momentum,
   epsilon |-> 0]


---------------------------------------------------------------------------
(* C1: after a sparse update (plain or resource-backed, centered or not)
   with index sequence idx, every row that does not occur in idx has the
   value it had before the update, in the variable and in every slot of
   every store; no decay is applied to such rows, and no slot appears or
   disappears. *)
C1_SparseFrame ==
  last.op \in SparseOps =>
    /\ \A s \in Stores : DOMAIN slots[s] = DOMAIN pre.slots[s]
    /\ \A r \in Rows :
         Occurrences(last.indices, r) = {} =>
           /\ NewVar[r] = OldVar[r]
           /\ \A s \in Stores : \A key \in DOMAIN slots[s] :
                slots[s][key][r] = pre.slots[s][key][r]

\* a centered resource-backed sparse update that follows a dense update,
\* changes a row of idx and has a row outside idx
C1_Witness ==
  /\ Succeeded({"resource_apply_sparse"})
  /\ centered
  /\ ncalls = MaxSteps
  /\ OldSlot("momentum") # Tensor(0)
  /\ \E r \in Rows : Occurrences(last.indices, r) = {}
  /\ \E r \in Rows : Occurrences(last.indices, r) # {} /\ NewSlot("rms")[r] # OldSlot("rms")[r]

---------------------------------------------------------------------------
\* the memory after kernel call a, then kernel call b, from memory M
Serial(a, b, M) ==
  LET R1 == RunKernel(a, M.vars, M.slots)
      R2 == RunKernel(b, R1.vars, R1.slots)
  IN  [vars |-> R2.vars, slots |-> R2.slots]

BothDone == \A t \in Threads : pc[t] = "done"

(* C2: with locking enabled, when two update calls issued concurrently on
   the same variable have both returned, the variable and its slots hold
   the result of running the two kernels one after the other in one of the
   two orders; while a kernel holds the lock no other kernel is between
   its first read and its last write.  Nothing is required with locking
   disabled. *)
C2_Serializable ==
  use_locking =>
    /\ BothDone => Memory \in { Serial(job["t1"], job["t2"], pre),
                                Serial(job["t2"], job["t1"], pre) }
    /\ ~(pc["t1"] = "run" /\ pc["t2"] = "run")

\* both calls have returned under locking, and the two serial orders give
\* different memories, both different from the memory before
C2_Witness ==
  /\ use_locking
  /\ BothDone
  /\ Serial(job["t1"], job["t2"], pre) # Serial(job["t2"], job["t1"], pre)
  /\ Memory # pre
  /\ job["t1"].kernel = "apply_rms_prop"
  /\ job["t2"].kernel = "resource_sparse_apply_rms_prop"

\* without locking a memory that no serial order produces is reachable
C2_TornWithoutLocking ==
  /\ ~use_locking
  /\ BothDone
  /\ Memory \notin { Serial(job["t1"], job["t2"], pre),
                     Serial(job["t2"], job["t1"], pre) }

RECURSIVE SeqRow(_, _, _, _, _)
\* the single-row updates of row r composed in the order of idx, from i on
SeqRow(el, r, idx, values, i) ==
  IF i > Len(idx) THEN el
  ELSE SeqRow(IF idx[i] = r THEN ElementStep(el, values[i], Recurrence) ELSE el,
              r, idx, values, i + 1)

OldRow(r) ==
  [v |-> OldVar[r], rms |-> OldSlot("rms")[r], mom |-> OldSlot("momentum")[r],
   mg |-> IF centered THEN OldSlot("mg")[r] ELSE 0]
NewRow(r) ==
  [v |-> NewVar[r], rms |-> NewSlot("rms")[r], mom |-> NewSlot("momentum")[r],
   mg |-> IF centered THEN NewSlot("mg")[r] ELSE 0]

First(S) == CHOOSE i \in S : \A j \in S : i <= j
\* the recurrence applied once to row r, with the gradient row of its first
\* occurrence in idx
OnceRow(r) ==
  ElementStep(OldRow(r), last.grad[First(Occurrences(last.indices, r))], Recurrence)

Repeated(r) == Cardinality(Occurrences(last.indices, r)) >= 2

(* C3 (amended): _apply_sparse applies the recurrence to a row once per
   occurrence of the row in idx, in sequence order, every application
   reading what the previous one wrote: the row equals the sequential
   composition of the single-row updates.  It differs from the result of one
   application unless the later applications leave the row as it is (then
   they cannot be told from a deduplication). *)
C3_Sequential ==
  Succeeded({"apply_sparse"}) =>
    \A r \in Rows :
      /\ NewRow(r) = SeqRow(OldRow(r), r, last.indices, last.grad, 1)
      /\ (Repeated(r) /\ NewRow(r) = OnceRow(r)) =>
           SeqRow(OnceRow(r), r, last.indices, last.grad,
                  First(Occurrences(last.indices, r)) + 1) = OnceRow(r)

(* C3 (as stated): the row equals the sequential composition of the
   single-row updates, and with a repeated row it always differs from
   applying the recurrence once. *)
C3_Original ==
  Succeeded({"apply_sparse"}) =>
    \A r \in Rows :
      /\ NewRow(r) = SeqRow(OldRow(r), r, last.indices, last.grad, 1)
      /\ Repeated(r) => NewRow(r) # OnceRow(r)

\* a row repeated with two different gradient rows, after a dense update,
\* whose result differs from one application
C3_Witness ==
  /\ Succeeded({"apply_sparse"})
  /\ OldSlot("momentum") # Tensor(0)
  /\ \E r \in Rows :
       /\ Repeated(r)
       /\ \E i, j \in Occurrences(last.indices, r) : last.grad[i] # last.grad[j]
       /\ NewRow(r) # OnceRow(r)


---------------------------------------------------------------------------
(* C4: after _create_vars succeeded for a variable, its rms slot holds the
   resolved epsilon (not a zero fill) in every element, its momentum slot holds
   zero in every element, an mg slot holds zero in every element and exists
   exactly when the engine is centered, and every slot has the shape of the
   variable. *)
C4_InitialSlots ==
  Succeeded({"create_vars"}) =>
    \A i \in 1..Len(last.var_list) :
      LET v == last.var_list[i]
          D == slots[last.state]
      IN  /\ <<v, "rms">> \in DOMAIN D
          /\ <<v, "momentum">> \in DOMAIN D
          /\ (<<v, "mg">> \in DOMAIN D) <=> centered
          /\ \A k \in Kinds : <<v, k>> \in DOMAIN D => DOMAIN D[<<v, k>>] = DOMAIN vars[v]
          /\ \A r \in Rows :
               /\ D[<<v, "rms">>][r] = hyper.epsilon
               /\ hyper.epsilon # 0 => D[<<v, "rms">>][r] # 0
               /\ D[<<v, "momentum">>][r] = 0
               /\ centered => D[<<v, "mg">>][r] = 0

\* slots were created on a centered engine
C4_Witness ==
  /\ Succeeded({"create_vars"})
  /\ centered
  /\ <<"a", "mg">> \in DOMAIN slots[last.state]
  /\ <<"a", "rms">> \notin DOMAIN pre.slots[last.state]

---------------------------------------------------------------------------
(* C5: on an engine with centered = False, a request for the mg slot of a
   variable, registered or not, fails with SlotNotFound, and no update
   entry point hands an mg slot to its kernel. *)
C5_NoMgWhenUncentered ==
  ~centered =>
    /\ (last.op = "get_slot" /\ last.kind = "mg") => last.result = "SlotNotFound"
    /\ last.op \in UpdateOps =>
         (last.call.mg = NoSlot /\ last.call.kernel \notin CenteredKernels)
    /\ \A s \in Stores, v \in Vars : <<v, "mg">> \notin DOMAIN slots[s]

\* the mg slot of a registered variable was requested on an uncentered engine
\* after an update
C5_Witness ==
  /\ ~centered
  /\ last.op = "get_slot" /\ last.kind = "mg" /\ last.result = "SlotNotFound"
  /\ <<last.var, "rms">> \in DOMAIN slots[last.state]
  /\ slots[last.state][<<last.var, "momentum">>] # Tensor(0)

---------------------------------------------------------------------------
(* C6: registering slots for a variable that already has slots fails with
   DuplicateSlot and leaves every slot as it was; no call other than a
   successful registration adds or removes a slot, and a failed call changes
   no slot. *)
C6_NoDuplicateSlots ==
  /\ (last.op = "create_vars" /\
      \E i \in 1..Len(last.var_list), k \in Kinds :
         <<last.var_list[i], k>> \in DOMAIN pre.slots[last.state])
       => (last.result = "DuplicateSlot" /\ slots = pre.slots)
  /\ ~Succeeded({"create_vars"}) =>
       \A s \in Stores : DOMAIN slots[s] = DOMAIN pre.slots[s]
  /\ last.result # "ok" => (slots = pre.slots /\ vars = pre.vars)

\* a second registration after an update had moved the slots off their
\* initial values
C6_Witness ==
  /\ last.op = "create_vars" /\ last.result = "DuplicateSlot"
  /\ slots[last.state][<<"a", "rms">>] # Tensor(hyper.epsilon)
  /\ slots[last.state][<<"a", "momentum">>] # Tensor(0)

---------------------------------------------------------------------------
(* C7: on an engine with centered = False, after one dense update with
   gradient g every element has rms_new = rho*rms_old + (1-rho)*g^2; where g
   is zero, rms decays to rho*rms_old and the variable moves by
   momentum*mom_old. *)
C7_DenseUncentered ==
  (~centered /\ Succeeded(DenseOps)) =>
    \A r \in Rows :
      LET g == last.grad[r]
      IN  /\ NewSlot("rms")[r] =
               Add(Mul(hyper.rho, OldSlot("rms")[r]), Mul(Sub(ONE, hyper.rho), Mul(g, g)))
          /\ g = 0 =>
               /\ NewSlot("rms")[r] = Mul(hyper.rho, OldSlot("rms")[r])
               /\ NewVar[r] = Sub(OldVar[r], Mul(hyper.momentum, OldSlot("momentum")[r]))

\* a zero gradient element whose momentum was not zero: rms decayed and the
\* variable moved
C7_Witness ==
  /\ ~centered /\ Succeeded({"apply_dense"})
  /\ \E r \in Rows :
       /\ last.grad[r] = 0
       /\ OldSlot("momentum")[r] # 0
       /\ NewSlot("rms")[r] # OldSlot("rms")[r]
       /\ NewVar[r] # OldVar[r]
  /\ \E r \in Rows : last.grad[r] # 0

---------------------------------------------------------------------------
(* C8: on an engine with centered = True, after one dense update
   mg_new = rho*mg_old + (1-rho)*g, rms_new = rho*rms_old + (1-rho)*g^2,
   mom_new = momentum*mom_old + lr*g/sqrt(rms_new - mg_new^2) with the new
   rms and mg, and v_new = v_old - mom_new. *)
C8_DenseCentered ==
  (centered /\ Succeeded(DenseOps)) =>
    \A r \in Rows :
      LET g == last.grad[r]
      IN  /\ NewSlot("mg")[r] =
               Add(Mul(hyper.rho, OldSlot("mg")[r]), Mul(Sub(ONE, hyper.rho), g))
          /\ NewSlot("rms")[r] =
               Add(Mul(hyper.rho, OldSlot("rms")[r]), Mul(Sub(ONE, hyper.rho), Mul(g, g)))
          /\ NewSlot("momentum")[r] =
               Add(Mul(hyper.momentum, OldSlot("momentum")[r]),
                   Div(Mul(hyper.learning_rate, g),
                       Sqrt(Sub(NewSlot("rms")[r], Mul(NewSlot("mg")[r], NewSlot("mg")[r])))))
          /\ NewVar[r] = Sub(OldVar[r], NewSlot("momentum")[r])

\* a second centered update: the old mg is not zero, and the denominator built
\* from the old rms and mg would give another momentum
C8_Witness ==
  /\ centered /\ Succeeded({"apply_dense"})
  /\ \E r \in Rows :
       /\ last.grad[r] # 0
       /\ OldSlot("mg")[r] # 0
       /\ NewSlot("momentum")[r] #
            Add(Mul(hyper.momentum, OldSlot("momentum")[r]),
                Div(Mul(hyper.learning_rate, last.grad[r]),
                    Sqrt(Sub(OldSlot("rms")[r], Mul(OldSlot("mg")[r], OldSlot("mg")[r])))))
       /\ NewVar[r] # OldVar[r]

---------------------------------------------------------------------------
\* what the non-resource counterpart of the last call does from the same memory
PlainOutcome ==
  IF last.op = "resource_apply_dense"
  THEN RunKernel(apply_dense(last.grad, last.var, last.state, pre.slots),
                 pre.vars, pre.slots)
  ELSE RunKernel(apply_sparse([values |-> last.grad, indices |-> last.indices],
                              last.var, last.state, pre.slots),
                 pre.vars, pre.slots)

(* C9: every resource-backed update entry point does what its non-resource
   counterpart does: from the same variable, slots, hyperparameters, centered
   flag, gradient and indices, and with the same slot store passed, both
   give the same outcome, the same new variable and the same new slots. *)
C9_ResourceSameAsPlain ==
  last.op \in {"resource_apply_dense", "resource_apply_sparse"} =>
    /\ last.result = PlainOutcome.err
    /\ vars = PlainOutcome.vars
    /\ slots = PlainOutcome.slots

---------------------------------------------------------------------------
\* the gradient of row r in the last call, and whether the row was updated once
GradOf(r) ==
  IF last.op \in DenseOps THEN last.grad[r]
  ELSE last.grad[First(Occurrences(last.indices, r))]

UpdatedOnce(r) ==
  \/ last.op \in DenseOps
  \/ last.op \in SparseOps /\ Cardinality(Occurrences(last.indices, r)) = 1

(* C10: epsilon enters only through the initial value of rms.  Every kernel
   invocation of the four update entry points, centered or not, has an
   epsilon operand of zero, so the momentum of a row updated once is
   momentum*mom_old + lr*g/sqrt(rms_new), or
   momentum*mom_old + lr*g/sqrt(rms_new - mg_new^2) when centered, with
   nothing added under the root. *)
C10_EpsilonOnce ==
  /\ last.op \in UpdateOps => last.call.epsilon = 0
  /\ Succeeded({"create_vars"}) =>
       \A i \in 1..Len(last.var_list) :
         slots[last.state][<<last.var_list[i], "rms">>] = Tensor(hyper.epsilon)
  /\ Succeeded(UpdateOps) =>
       \A r \in Rows :
         UpdatedOnce(r) =>
           LET c == last.call
               variance == IF centered
                           THEN Sub(NewAt(c.rms)[r], Mul(NewAt(c.mg)[r], NewAt(c.mg)[r]))
                           ELSE NewAt(c.rms)[r]
           IN  NewAt(c.mom)[r] =
                 Add(Mul(hyper.momentum, OldAt(c.mom)[r]),
                     Div(Mul(hyper.learning_rate, GradOf(r)), Sqrt(variance)))

\* a centered sparse update of a row with a gradient that is not zero; with
\* epsilon added under the root the momentum would be another
C10_Witness ==
  /\ Succeeded({"apply_sparse"}) /\ centered
  /\ hyper.epsilon # 0
  /\ \E r \in Rows :
       /\ UpdatedOnce(r)
       /\ GradOf(r) # 0
       /\ NewSlot("momentum")[r] #
            Add(Mul(hyper.momentum, OldSlot("momentum")[r]),
                Div(Mul(hyper.learning_rate, GradOf(r)),
                    Sqrt(Add(Sub(NewSlot("rms")[r], Mul(NewSlot("mg")[r], NewSlot("mg")[r])),
                             hyper.epsilon))))

===========================================================================
